---- MODULE Spec2Model ----
(***************************************************************************)
(* Model of the Scooby / BFBB SKA animation importer                       *)
(* (src/Scooby_Animation_Importer.py).                                     *)
(*                                                                         *)
(* SpecDecode : parse_ska_file, one action per section of the function.    *)
(* SpecApply  : apply_ska_to_armature, one action per statement group and  *)
(*              one per time slot of each bone.                            *)
(* SpecBatch  : SCOOBY_OT_import_animations.execute, one action per way a  *)
(*              selected file can go through the body of the loop.         *)
(*                                                                         *)
(* Floats are modelled by integers: a finite time value is a small         *)
(* integer, +infinity is FloatInf.  An absent value (Python None) is the   *)
(* empty tuple <<>>, a present value v is <<v>>.                           *)
(***************************************************************************)
EXTENDS Integers, Sequences, FiniteSets, TLC

\* ------------------------------------------------------------------ bounds
MaxBones == 2
MaxTimes == 3
MaxKeys == 2
MaxCells == 4
MaxPoseBones == 2
MaxFiles == 2

\* ------------------------------------------------------- program constants
HeaderSize == 28
KeyframeStructSize == 16
TimeValueSize == 4
KeyOffsetSize == 2
NoKey == 65535
Int16Max == 32767
FloatInf == 1000
FrameOffset == 1

VARIABLES
    file_size,              \* len(data_bytes)
    file_header,            \* the counts stored in the buffer's header bytes
    pc,                     \* position inside parse_ska_file
    header_information,     \* the header as parse_ska_file read it, <<>> before
    time_values,
    keyframes,
    key_offset_grid,
    bone_animation_tracks,
    parse_error,            \* "none", "size" (ValueError) or "struct" (struct.error)
    \* the host (Blender) objects the importer writes to
    armature,               \* the active armature: its pose bones' bone_id properties
    pose,                   \* per pose bone: rotation_mode, location, rotation_quaternion
    animation_data,         \* None, or Some(name of the assigned action, "" for none)
    actions,                \* bpy.data.actions: action name -> its keyframe points
    scene_frames,           \* <<frame_start, frame_end>>
    \* apply_ska_to_armature
    apc,                    \* position inside apply_ska_to_armature
    action_name,
    bone_index_to_pose_bone,
    bone_index,
    time_slot_index,
    entries_by_time_slot_index,
    last_rotation_quaternion,
    last_translation_vector,
    local_time_count,
    insert_log,             \* history: the keyframe_insert calls of this apply, in order
    \* SCOOBY_OT_import_animations.execute
    animation_paths,        \* the selected files, with what each holds on disk
    HAS_BFBB_ANM,
    active_object,          \* bpy.context.object: its type, or "none"
    dff_generate_bone_props,\* the DFF operator: "absent", "generates" or "raises"
    bpc,                    \* position inside execute
    path_index,             \* how many paths the loop has been through
    errors,
    imported_ska_actions,
    imported_anm_count,
    reports,                \* the self.report calls, in order
    file_outcomes           \* history: what became of each path gone through

decodeVars == <<file_size, file_header, pc, header_information, time_values,
                keyframes, key_offset_grid, bone_animation_tracks, parse_error>>

hostVars == <<armature, pose, animation_data, actions, scene_frames>>

applyVars == <<apc, action_name, bone_index_to_pose_bone, bone_index,
               time_slot_index, entries_by_time_slot_index,
               last_rotation_quaternion, last_translation_vector,
               local_time_count, insert_log>>

batchVars == <<animation_paths, HAS_BFBB_ANM, active_object,
               dff_generate_bone_props, bpc, path_index, errors,
               imported_ska_actions, imported_anm_count, reports, file_outcomes>>

vars == <<decodeVars, hostVars, applyVars, batchVars>>

\* ----------------------------------------------------------------- helpers
Max(a, b) == IF a >= b THEN a ELSE b

None == <<>>
Some(v) == <<v>>
IsNone(x) == x = <<>>
Val(x) == x[1]

\* ------------------------------------------------------------ layout sizes
\* (mutation of OffsetTimeSlotCount: the grid has one row per time value)
OffsetTimeSlotCountAllTimes(time_count) == Max(time_count, 0)

\* line 90
OffsetTimeSlotCount(time_count) == Max(time_count - 1, 0)

KeyframesStartOffset == HeaderSize

TimeValuesStartOffset(keyframe_count) ==
    KeyframesStartOffset + keyframe_count * KeyframeStructSize

KeyOffsetsStartOffset(time_count, keyframe_count) ==
    TimeValuesStartOffset(keyframe_count) + time_count * TimeValueSize

\* (mutation of TotalExpectedSize: time_count - 1 is not clamped at 0)
TotalExpectedSizeUnclamped(bone_count, time_count, keyframe_count) ==
    KeyOffsetsStartOffset(time_count, keyframe_count)
        + (time_count - 1) * bone_count * KeyOffsetSize

TotalExpectedSize(bone_count, time_count, keyframe_count) ==
    KeyOffsetsStartOffset(time_count, keyframe_count)
        + OffsetTimeSlotCount(time_count) * bone_count * KeyOffsetSize

\* --------------------------------------------------------- keyframe decode
\* The raw int16 payload stored in pool entry k (0-based): an axis-aligned
\* quaternion (x, y, z, w), the third pool entry all zero, and a translation
\* that differs from entry to entry.
RawQuaternion(k) ==
    CASE k % 3 = 0 -> <<0, 0, 0, Int16Max>>
      [] k % 3 = 1 -> <<Int16Max, 0, 0, 0>>
      [] OTHER     -> <<0, 0, 0, 0>>

RawTranslation(k) == <<10 + k, 0, 0 - k>>

ScaleValuesXYZ == <<1, 2, 3>>

\* value / 32767.0, then division by the vector's length unless the squared
\* length is <= 1e-12.  For an axis-aligned raw vector the result is the
\* signed unit axis; any non-zero int16 vector has squared length > 9e-10.
Sign(n) == IF n > 0 THEN 1 ELSE IF n < 0 THEN 0 - 1 ELSE 0

QuaternionFloats(raw) ==
    IF \A i \in 1..4 : raw[i] = 0
    THEN raw
    ELSE [i \in 1..4 |-> Sign(raw[i])]

ScaledTranslation(raw, scale) == [i \in 1..3 |-> raw[i] * scale[i]]

ActualTimeValue(raw_time_index, times) ==
    IF 0 <= raw_time_index /\ raw_time_index < Len(times)
    THEN Some(times[raw_time_index + 1])
    ELSE None

DecodeKeyframe(k, raw_time_index, times) ==
    [index       |-> k,
     time_index  |-> raw_time_index,
     time        |-> ActualTimeValue(raw_time_index, times),
     quaternion  |-> QuaternionFloats(RawQuaternion(k)),
     translation |-> ScaledTranslation(RawTranslation(k), ScaleValuesXYZ)]

\* ------------------------------------------------------------- track build
\* (mutation of CellSkipped: the range test is off by one)
CellSkippedOffByOne(keyframe_index_value, keyframe_count) ==
    \/ keyframe_index_value = NoKey
    \/ keyframe_index_value >= keyframe_count - 1

\* A grid cell yields an entry unless it is the sentinel or out of the pool.
CellSkipped(keyframe_index_value, keyframe_count) ==
    \/ keyframe_index_value = NoKey
    \/ keyframe_index_value >= keyframe_count

TrackEntry(slot, keyframe) ==
    [frame_time_slot_index |-> slot,
     absolute_time_value   |-> keyframe.time,
     quaternion            |-> keyframe.quaternion,
     translation           |-> keyframe.translation]

\* The entries of one bone, time slots 0 .. upto-1, in slot order.
RECURSIVE BoneEntries(_, _, _, _, _)
BoneEntries(grid, pool, keyframe_count, index, upto) ==
    IF upto = 0 THEN <<>>
    ELSE LET rest == BoneEntries(grid, pool, keyframe_count, index, upto - 1)
             cell == grid[upto][index + 1]
         IN  IF CellSkipped(cell, keyframe_count)
             THEN rest
             ELSE Append(rest, TrackEntry(upto - 1, pool[cell + 1]))

\* key=lambda entry: (inf if time is None else time, slot)
SortKeyTime(entry) ==
    IF IsNone(entry.absolute_time_value)
    THEN FloatInf
    ELSE Val(entry.absolute_time_value)

KeyLess(a, b) ==
    \/ SortKeyTime(a) < SortKeyTime(b)
    \/ /\ SortKeyTime(a) = SortKeyTime(b)
       /\ a.frame_time_slot_index < b.frame_time_slot_index

\* list.sort is stable: an element goes after every element not greater.
RECURSIVE InsertSorted(_, _)
InsertSorted(e, s) ==
    IF s = <<>> THEN <<e>>
    ELSE IF KeyLess(e, Head(s)) THEN <<e>> \o s
    ELSE <<Head(s)>> \o InsertSorted(e, Tail(s))

RECURSIVE SortTrack(_)
SortTrack(track) ==
    IF track = <<>> THEN <<>>
    ELSE InsertSorted(track[Len(track)], SortTrack(SubSeq(track, 1, Len(track) - 1)))

BuildTracks(grid, pool, bone_count, keyframe_count, slot_count) ==
    [b \in 1..bone_count |->
        SortTrack(BoneEntries(grid, pool, keyframe_count, b - 1, slot_count))]

\* ------------------------------------------------------------ input values
\* Time tables the decoder may read: an ascending one, a descending one, and
\* an unsorted one with a repeated value and +infinity.
TimeTables(time_count) ==
    { [i \in 1..time_count |-> i - 1],
      [i \in 1..time_count |-> time_count - i],
      [i \in 1..time_count |-> IF i = 1 THEN 1 ELSE IF i = 2 THEN FloatInf ELSE 0] }

\* A keyframe's raw time_index: any table index, or the first one outside.
TimeIndexValues(time_count) == 0..time_count

\* A grid cell: a pool index below MaxKeys, or the sentinel.
CellValues == (0..(MaxKeys - 1)) \cup {NoKey}

Headers ==
    { h \in [bone_count : 0..MaxBones, time_count : 0..MaxTimes,
             keyframe_count : 0..MaxKeys] :
        OffsetTimeSlotCount(h.time_count) * h.bone_count <= MaxCells }

ExactSize(h) ==
    28 + 16 * h.keyframe_count + 4 * h.time_count
       + 2 * (IF h.time_count >= 1 THEN h.time_count - 1 ELSE 0) * h.bone_count

\* ------------------------------------------------------------------- host
\* A function with key k set to v (dict assignment).
Put(m, k, v) == [x \in (DOMAIN m) \cup {k} |-> IF x = k THEN v ELSE m[x]]

EmptyMap == [x \in {} |-> 0]

PoseBoneCount(arm) == Len(arm.bone_ids)

\* armature_data.bones.get(pose_bone.name) is not None
HasEditBone(arm, p) == arm.missing # p

\* edit_bone.get("bone_id"), when it is an int
BoneIdProperty(arm, p) == arm.bone_ids[p]

HasBoneId(arm, p) == HasEditBone(arm, p) /\ ~IsNone(BoneIdProperty(arm, p))

\* lines 233-240: the first loop over the first upto pose bones
RECURSIVE ExplicitBoneMap(_, _)
ExplicitBoneMap(arm, upto) ==
    IF upto = 0 THEN EmptyMap
    ELSE LET m == ExplicitBoneMap(arm, upto - 1)
         IN  IF HasBoneId(arm, upto)
             THEN Put(m, Val(BoneIdProperty(arm, upto)), upto)
             ELSE m

\* lines 247-248
FallbackBoneMap(arm) == [i \in 0..(PoseBoneCount(arm) - 1) |-> i + 1]

\* (mutation of BuildBoneIndexToPoseBoneMap: the positional fallback fills
\* the indices that no bone_id claims)
BuildBoneIndexToPoseBoneMapMixed(arm) ==
    LET explicit == ExplicitBoneMap(arm, PoseBoneCount(arm))
        fallback == FallbackBoneMap(arm)
    IN  [i \in (DOMAIN explicit) \cup (DOMAIN fallback) |->
            IF i \in DOMAIN explicit THEN explicit[i] ELSE fallback[i]]

\* lines 226-250
BuildBoneIndexToPoseBoneMap(arm) ==
    IF \E p \in 1..PoseBoneCount(arm) : HasBoneId(arm, p)
    THEN ExplicitBoneMap(arm, PoseBoneCount(arm))
    ELSE FallbackBoneMap(arm)

\* (mutation of CreateOrClearAction: an existing action keeps its curves)
CreateOrClearActionKeepsCurves(acts, name) ==
    IF name \in DOMAIN acts
    THEN acts
    ELSE Put(acts, name, {})

\* lines 253-266: the actions and the armature's animation data afterwards
CreateOrClearAction(acts, name) ==
    IF name \in DOMAIN acts
    THEN [acts EXCEPT ![name] = {}]
    ELSE Put(acts, name, {})

\* lines 291-294
ResetPose(arm) ==
    [p \in 1..PoseBoneCount(arm) |->
        [rotation_mode       |-> "QUATERNION",
         location            |-> <<0, 0, 0>>,
         rotation_quaternion |-> <<1, 0, 0, 0>>]]

\* lines 296-299
FrameRange(frames, time_count) ==
    IF time_count > 0
    THEN <<FrameOffset, FrameOffset + time_count - 1>>
    ELSE frames

\* ------------------------------------------------------- retarget of a bone
\* The rest pose is opaque: a converted value names the bone whose rest
\* matrices it was computed against and the decoded value it came from.
LocalRestRotation(p) == <<"local_rest_rotation", p>>

\* Quaternion((w, x, y, z)) of the stored (x, y, z, w)
GameRotationQuaternion(q) == <<q[4], q[1], q[2], q[3]>>

RotationDifference(rest, game) ==
    [op |-> "rotation_difference", rest |-> rest, game |-> game]

BasisTranslation(p, translation) ==
    [op |-> "basis_translation", bone |-> p, game |-> translation]

\* lines 322-327: a later entry of the same slot replaces an earlier one
RECURSIVE EntriesByTimeSlotIndex(_)
EntriesByTimeSlotIndex(track) ==
    IF track = <<>> THEN EmptyMap
    ELSE LET last == track[Len(track)]
         IN  Put(EntriesByTimeSlotIndex(SubSeq(track, 1, Len(track) - 1)),
                 last.frame_time_slot_index, last)

MaxOf(S) == CHOOSE m \in S : \A x \in S : x <= m

\* (mutation of LocalTimeCount: the domain stops at the grid's last row)
LocalTimeCountGridRows(time_count, entries) ==
    IF time_count <= 0 /\ DOMAIN entries # {}
    THEN MaxOf(DOMAIN entries) + 1
    ELSE Max(time_count - 1, 0)

\* lines 332-334
LocalTimeCount(time_count, entries) ==
    IF time_count <= 0 /\ DOMAIN entries # {}
    THEN MaxOf(DOMAIN entries) + 1
    ELSE time_count

\* (mutation of FrameNumber: frames are numbered like slots, from 0)
FrameNumberZeroBased(slot) == slot

\* line 337
FrameNumber(slot) == FrameOffset + slot

\* (mutation of CarriedValue: nothing is carried over from the last slot)
CarriedValueDropped(last_value) == None

\* lines 340-341: the value a slot starts from
CarriedValue(last_value) == last_value

\* keyframe_insert: the point of this bone, channel and frame is (re)written
InsertKeyframe(fcurves, p, data_path, frame, value) ==
    { k \in fcurves : ~(k.bone = p /\ k.data_path = data_path /\ k.frame = frame) }
        \cup {[bone |-> p, data_path |-> data_path, frame |-> frame, value |-> value]}

LogEntry(index, p, data_path, frame, slot, value) ==
    [bone_index |-> index, bone |-> p, data_path |-> data_path,
     frame |-> frame, slot |-> slot, value |-> value]

\* lines 337-377: one pass of the slot loop for pose bone p, on the record
\* st = [fcurves, pose, last_rotation_quaternion, last_translation_vector, log]
SlotEffect(st, index, p, entries, slot) ==
    LET has_entry == slot \in DOMAIN entries
        rotation_quaternion ==
            IF has_entry
            THEN Some(RotationDifference(LocalRestRotation(p),
                          GameRotationQuaternion(entries[slot].quaternion)))
            ELSE CarriedValue(st.last_rotation_quaternion)
        translation_vector ==
            IF has_entry
            THEN Some(BasisTranslation(p, entries[slot].translation))
            ELSE CarriedValue(st.last_translation_vector)
        frame_number == FrameNumber(slot)
        f1 == IF IsNone(rotation_quaternion) THEN st.fcurves
              ELSE InsertKeyframe(st.fcurves, p, "rotation_quaternion",
                                  frame_number, Val(rotation_quaternion))
        f2 == IF IsNone(translation_vector) THEN f1
              ELSE InsertKeyframe(f1, p, "location",
                                  frame_number, Val(translation_vector))
        p1 == IF IsNone(rotation_quaternion) THEN st.pose
              ELSE [st.pose EXCEPT ![p].rotation_quaternion = Val(rotation_quaternion)]
        p2 == IF IsNone(translation_vector) THEN p1
              ELSE [p1 EXCEPT ![p].location = Val(translation_vector)]
        l1 == IF IsNone(rotation_quaternion) THEN st.log
              ELSE Append(st.log, LogEntry(index, p, "rotation_quaternion",
                                           frame_number, slot, Val(rotation_quaternion)))
        l2 == IF IsNone(translation_vector) THEN l1
              ELSE Append(l1, LogEntry(index, p, "location",
                                       frame_number, slot, Val(translation_vector)))
    IN  [fcurves                  |-> f2,
         pose                     |-> p2,
         last_rotation_quaternion |-> IF has_entry THEN rotation_quaternion
                                      ELSE st.last_rotation_quaternion,
         last_translation_vector  |-> IF has_entry THEN translation_vector
                                      ELSE st.last_translation_vector,
         log                      |-> l2]

\* lines 301-305 and 307-310: the track of this index is skipped
BoneSkipped(arm, map, index) ==
    IF index \notin DOMAIN map THEN TRUE ELSE ~HasEditBone(arm, map[index])

\* ------------------------------------------------------------ idle parts
InitialPose(n) ==
    [p \in 1..n |->
        [rotation_mode       |-> "XYZ",
         location            |-> <<5, 5, 5>>,
         rotation_quaternion |-> <<0, 1, 0, 0>>]]

HostIdle ==
    /\ armature = [bone_ids |-> <<>>, missing |-> 0]
    /\ pose = <<>>
    /\ animation_data = None
    /\ actions = EmptyMap
    /\ scene_frames = <<1, 250>>

ApplyLocalsIdle ==
    /\ bone_index_to_pose_bone = EmptyMap
    /\ bone_index = 0
    /\ time_slot_index = 0
    /\ entries_by_time_slot_index = EmptyMap
    /\ last_rotation_quaternion = None
    /\ last_translation_vector = None
    /\ local_time_count = 0
    /\ insert_log = <<>>

BatchIdle ==
    /\ animation_paths = <<>>
    /\ HAS_BFBB_ANM = FALSE
    /\ active_object = "ARMATURE"
    /\ dff_generate_bone_props = "absent"
    /\ bpc = "idle"
    /\ path_index = 0
    /\ errors = <<>>
    /\ imported_ska_actions = <<>>
    /\ imported_anm_count = 0
    /\ reports = <<>>
    /\ file_outcomes = <<>>

ApplyIdle ==
    /\ apc = "idle"
    /\ action_name = <<>>
    /\ ApplyLocalsIdle

\* ------------------------------------------------------------------ decode
InitDecode ==
    /\ file_header \in Headers
    /\ file_size \in {HeaderSize - 1, ExactSize(file_header) - 1,
                      ExactSize(file_header), ExactSize(file_header) + 1}
    /\ pc = "header"
    /\ header_information = <<>>
    /\ time_values = <<>>
    /\ keyframes = <<>>
    /\ key_offset_grid = <<>>
    /\ bone_animation_tracks = <<>>
    /\ parse_error = "none"
    /\ HostIdle
    /\ ApplyIdle
    /\ BatchIdle

Fail(kind) ==
    /\ pc' = "error"
    /\ parse_error' = kind

\* lines 54-79
ReadHeader ==
    /\ pc = "header"
    /\ IF file_size < HeaderSize
       THEN /\ Fail("size")
            /\ UNCHANGED header_information
       ELSE /\ header_information' = file_header
            /\ pc' = "layout"
            /\ UNCHANGED parse_error
    /\ UNCHANGED <<file_size, file_header, time_values, keyframes,
                   key_offset_grid, bone_animation_tracks>>
    /\ UNCHANGED <<hostVars, applyVars, batchVars>>

\* lines 81-100
CheckLayout ==
    /\ pc = "layout"
    /\ IF TotalExpectedSize(header_information.bone_count,
                            header_information.time_count,
                            header_information.keyframe_count) > file_size
       THEN Fail("size")
       ELSE /\ pc' = "times"
            /\ UNCHANGED parse_error
    /\ UNCHANGED <<file_size, file_header, header_information, time_values,
                   keyframes, key_offset_grid, bone_animation_tracks>>
    /\ UNCHANGED <<hostVars, applyVars, batchVars>>

\* lines 102-107; struct.unpack_from raises when the read leaves the buffer
ReadTimeValues ==
    /\ pc = "times"
    /\ LET T == header_information.time_count
           K == header_information.keyframe_count
       IN  IF T > 0 /\ TimeValuesStartOffset(K) + T * TimeValueSize > file_size
           THEN /\ Fail("struct")
                /\ UNCHANGED time_values
           ELSE /\ time_values' \in TimeTables(T)
                /\ pc' = "keyframes"
                /\ UNCHANGED parse_error
    /\ UNCHANGED <<file_size, file_header, header_information, keyframes,
                   key_offset_grid, bone_animation_tracks>>
    /\ UNCHANGED <<hostVars, applyVars, batchVars>>

\* lines 109-153
ReadKeyframes ==
    /\ pc = "keyframes"
    /\ LET T == header_information.time_count
           K == header_information.keyframe_count
       IN  IF K > 0 /\ KeyframesStartOffset + K * KeyframeStructSize > file_size
           THEN /\ Fail("struct")
                /\ UNCHANGED keyframes
           ELSE /\ \E raw \in [1..K -> TimeIndexValues(T)] :
                       keyframes' = [k \in 1..K |->
                                        DecodeKeyframe(k - 1, raw[k], time_values)]
                /\ pc' = "grid"
                /\ UNCHANGED parse_error
    /\ UNCHANGED <<file_size, file_header, header_information, time_values,
                   key_offset_grid, bone_animation_tracks>>
    /\ UNCHANGED <<hostVars, applyVars, batchVars>>

\* lines 155-168
ReadKeyOffsetGrid ==
    /\ pc = "grid"
    /\ LET B == header_information.bone_count
           T == header_information.time_count
           K == header_information.keyframe_count
           S == OffsetTimeSlotCount(T)
       IN  IF S * B > 0 /\ KeyOffsetsStartOffset(T, K) + S * B * KeyOffsetSize > file_size
           THEN /\ Fail("struct")
                /\ UNCHANGED key_offset_grid
           ELSE /\ key_offset_grid' \in [1..S -> [1..B -> CellValues]]
                /\ pc' = "tracks"
                /\ UNCHANGED parse_error
    /\ UNCHANGED <<file_size, file_header, header_information, time_values,
                   keyframes, bone_animation_tracks>>
    /\ UNCHANGED <<hostVars, applyVars, batchVars>>

\* lines 170-205
BuildBoneTracks ==
    /\ pc = "tracks"
    /\ bone_animation_tracks' =
           BuildTracks(key_offset_grid, keyframes,
                       header_information.bone_count,
                       header_information.keyframe_count,
                       OffsetTimeSlotCount(header_information.time_count))
    /\ pc' = "done"
    /\ UNCHANGED <<file_size, file_header, header_information, time_values,
                   keyframes, key_offset_grid, parse_error>>
    /\ UNCHANGED <<hostVars, applyVars, batchVars>>

NextDecode ==
    \/ ReadHeader
    \/ CheckLayout
    \/ ReadTimeValues
    \/ ReadKeyframes
    \/ ReadKeyOffsetGrid
    \/ BuildBoneTracks

SpecDecode == InitDecode /\ [][NextDecode]_vars

\* ------------------------------------------------------------------- apply
\* A bone_id property: absent, or the index of the first or second bone.
BoneIdValues == {None, Some(0), Some(1)}

\* The grid cells of the animations given to apply_ska_to_armature: the
\* first and the last index MaxKeys allows, or the sentinel.
ApplyCellValues == {0, MaxKeys - 1, NoKey}

\* The armatures: up to MaxPoseBones pose bones; at most one of them without
\* a bone in the armature data, which then carries no property either.
Armatures ==
    { a \in [bone_ids : UNION { [1..n -> BoneIdValues] : n \in 0..MaxPoseBones },
             missing  : 0..MaxPoseBones] :
        /\ a.missing <= Len(a.bone_ids)
        /\ a.missing > 0 => IsNone(a.bone_ids[a.missing]) }

\* A keyframe point left in an action by an earlier import.
StalePoint ==
    [bone |-> 1, data_path |-> "location", frame |-> 9, value |-> "stale"]

\* The decoded animations apply_ska_to_armature is given: what the decoder
\* returns for a descending time table, pool entry k using time index k, and
\* any grid.
DecodedPool(h, times) ==
    [k \in 1..h.keyframe_count |->
        DecodeKeyframe(k - 1, (k - 1) % (h.time_count + 1), times)]

InitApply ==
    /\ file_header \in { h \in Headers : h.keyframe_count \in {1, MaxKeys} }
    /\ file_size = ExactSize(file_header)
    /\ pc = "done"
    /\ parse_error = "none"
    /\ header_information = file_header
    /\ time_values = [i \in 1..file_header.time_count |-> file_header.time_count - i]
    /\ keyframes = DecodedPool(file_header, time_values)
    /\ key_offset_grid \in
           [1..OffsetTimeSlotCount(file_header.time_count) ->
               [1..file_header.bone_count -> ApplyCellValues]]
    /\ bone_animation_tracks =
           BuildTracks(key_offset_grid, keyframes, file_header.bone_count,
                       file_header.keyframe_count,
                       OffsetTimeSlotCount(file_header.time_count))
    /\ armature \in Armatures
    /\ pose = InitialPose(PoseBoneCount(armature))
    /\ action_name = <<"walk", "_from_ska", 0>>
    /\ \/ /\ animation_data = None
          /\ actions = EmptyMap
       \/ /\ animation_data = Some(<<"idle", "_anm", 0>>)
          /\ actions = [n \in {<<"idle", "_anm", 0>>, <<"walk", "_from_ska", 0>>} |->
                            {StalePoint}]
    /\ scene_frames = <<1, 250>>
    /\ apc = "map"
    /\ ApplyLocalsIdle
    /\ BatchIdle

\* line 285
BuildBoneMap ==
    /\ apc = "map"
    /\ bone_index_to_pose_bone' = BuildBoneIndexToPoseBoneMap(armature)
    /\ apc' = "action"
    /\ UNCHANGED <<batchVars, decodeVars, hostVars, action_name, bone_index, time_slot_index,
                   entries_by_time_slot_index, last_rotation_quaternion,
                   last_translation_vector, local_time_count, insert_log>>

\* line 288
CreateAction ==
    /\ apc = "action"
    /\ actions' = CreateOrClearAction(actions, action_name)
    /\ animation_data' = Some(action_name)
    /\ apc' = "prepare"
    /\ UNCHANGED <<batchVars, decodeVars, armature, pose, scene_frames, action_name,
                   bone_index_to_pose_bone, bone_index, time_slot_index,
                   entries_by_time_slot_index, last_rotation_quaternion,
                   last_translation_vector, local_time_count, insert_log>>

\* lines 290-299
PrepareScene ==
    /\ apc = "prepare"
    /\ pose' = ResetPose(armature)
    /\ scene_frames' = FrameRange(scene_frames, header_information.time_count)
    /\ bone_index' = 0
    /\ apc' = "bone"
    /\ UNCHANGED <<batchVars, decodeVars, armature, animation_data, actions, action_name,
                   bone_index_to_pose_bone, time_slot_index,
                   entries_by_time_slot_index, last_rotation_quaternion,
                   last_translation_vector, local_time_count, insert_log>>

\* (mutation of SkipBone: the skip leaves the loop over the tracks)
SkipBoneBreaks ==
    /\ apc = "bone"
    /\ bone_index < Len(bone_animation_tracks)
    /\ BoneSkipped(armature, bone_index_to_pose_bone, bone_index)
    /\ apc' = "done"
    /\ UNCHANGED <<batchVars, decodeVars, hostVars, action_name, bone_index_to_pose_bone,
                   bone_index, time_slot_index, entries_by_time_slot_index,
                   last_rotation_quaternion, last_translation_vector,
                   local_time_count, insert_log>>

\* lines 301-310: continue
SkipBone ==
    /\ apc = "bone"
    /\ bone_index < Len(bone_animation_tracks)
    /\ BoneSkipped(armature, bone_index_to_pose_bone, bone_index)
    /\ bone_index' = bone_index + 1
    /\ UNCHANGED <<batchVars, decodeVars, hostVars, apc, action_name, bone_index_to_pose_bone,
                   time_slot_index, entries_by_time_slot_index,
                   last_rotation_quaternion, last_translation_vector,
                   local_time_count, insert_log>>

\* lines 312-334
StartBone ==
    /\ apc = "bone"
    /\ bone_index < Len(bone_animation_tracks)
    /\ ~BoneSkipped(armature, bone_index_to_pose_bone, bone_index)
    /\ LET entries == EntriesByTimeSlotIndex(bone_animation_tracks[bone_index + 1])
       IN  /\ entries_by_time_slot_index' = entries
           /\ local_time_count' =
                  LocalTimeCount(header_information.time_count, entries)
    /\ pose' = [pose EXCEPT ![bone_index_to_pose_bone[bone_index]].rotation_mode =
                                "QUATERNION"]
    /\ last_rotation_quaternion' = None
    /\ last_translation_vector' = None
    /\ time_slot_index' = 0
    /\ apc' = "slot"
    /\ UNCHANGED <<batchVars, decodeVars, armature, animation_data, actions, scene_frames,
                   action_name, bone_index_to_pose_bone, bone_index, insert_log>>

\* lines 336-377: one time slot of the current bone
SlotStep ==
    /\ apc = "slot"
    /\ time_slot_index < local_time_count
    /\ LET target == Val(animation_data)
           st == SlotEffect([fcurves |-> actions[target],
                             pose |-> pose,
                             last_rotation_quaternion |-> last_rotation_quaternion,
                             last_translation_vector |-> last_translation_vector,
                             log |-> insert_log],
                            bone_index, bone_index_to_pose_bone[bone_index],
                            entries_by_time_slot_index, time_slot_index)
       IN  /\ actions' = [actions EXCEPT ![target] = st.fcurves]
           /\ pose' = st.pose
           /\ last_rotation_quaternion' = st.last_rotation_quaternion
           /\ last_translation_vector' = st.last_translation_vector
           /\ insert_log' = st.log
    /\ time_slot_index' = time_slot_index + 1
    /\ UNCHANGED <<batchVars, decodeVars, armature, animation_data, scene_frames, apc,
                   action_name, bone_index_to_pose_bone, bone_index,
                   entries_by_time_slot_index, local_time_count>>

\* the slot loop of the current bone is exhausted
EndBone ==
    /\ apc = "slot"
    /\ time_slot_index >= local_time_count
    /\ bone_index' = bone_index + 1
    /\ apc' = "bone"
    /\ UNCHANGED <<batchVars, decodeVars, hostVars, action_name, bone_index_to_pose_bone,
                   time_slot_index, entries_by_time_slot_index,
                   last_rotation_quaternion, last_translation_vector,
                   local_time_count, insert_log>>

\* lines 379-380: every track has been visited
FinishApply ==
    /\ apc = "bone"
    /\ bone_index >= Len(bone_animation_tracks)
    /\ apc' = "done"
    /\ UNCHANGED <<batchVars, decodeVars, hostVars, action_name, bone_index_to_pose_bone,
                   bone_index, time_slot_index, entries_by_time_slot_index,
                   last_rotation_quaternion, last_translation_vector,
                   local_time_count, insert_log>>

NextApply ==
    \/ BuildBoneMap
    \/ CreateAction
    \/ PrepareScene
    \/ SkipBone
    \/ StartBone
    \/ SlotStep
    \/ EndBone
    \/ FinishApply

SpecApply == InitApply /\ [][NextApply]_vars

\* ------------------------------------------------- whole-function operators
\* parse_ska_file on a whole file f = [readable, size, header, times,
\* raw_time_index, grid]: the error raised, or the dictionary returned.
ParseSkaFile(f) ==
    IF ~f.readable THEN [error |-> "io"]
    ELSE IF f.size < HeaderSize THEN [error |-> "size"]
    ELSE IF TotalExpectedSize(f.header.bone_count, f.header.time_count,
                              f.header.keyframe_count) > f.size
    THEN [error |-> "size"]
    ELSE LET pool == [k \in 1..f.header.keyframe_count |->
                         DecodeKeyframe(k - 1, f.raw_time_index[k], f.times)]
         IN  [error  |-> "none",
              header |-> f.header,
              time_values |-> f.times,
              pool   |-> pool,
              bone_animation_tracks |->
                  BuildTracks(f.grid, pool, f.header.bone_count,
                              f.header.keyframe_count,
                              OffsetTimeSlotCount(f.header.time_count))]

\* lines 336-377: the slot loop of one bone, slots 0 .. upto-1
RECURSIVE RunSlots(_, _, _, _, _)
RunSlots(st, index, p, entries, upto) ==
    IF upto = 0 THEN st
    ELSE SlotEffect(RunSlots(st, index, p, entries, upto - 1),
                    index, p, entries, upto - 1)

\* lines 301-377: the loop over the first upto tracks
RECURSIVE RunBones(_, _, _, _, _, _)
RunBones(st, tracks, arm, map, time_count, upto) ==
    IF upto = 0 THEN st
    ELSE LET before == RunBones(st, tracks, arm, map, time_count, upto - 1)
             index == upto - 1
         IN  IF BoneSkipped(arm, map, index) THEN before
             ELSE LET p == map[index]
                      entries == EntriesByTimeSlotIndex(tracks[upto])
                      started ==
                          [before EXCEPT
                              !.pose = [before.pose EXCEPT ![p].rotation_mode = "QUATERNION"],
                              !.last_rotation_quaternion = None,
                              !.last_translation_vector = None]
                  IN  RunSlots(started, index, p, entries,
                               LocalTimeCount(time_count, entries))

\* lines 277-380: the host objects after apply_ska_to_armature
ApplySkaToArmature(header, tracks, arm, acts, frames, name) ==
    LET cleared == CreateOrClearAction(acts, name)
        done == RunBones([fcurves |-> cleared[name],
                          pose |-> ResetPose(arm),
                          last_rotation_quaternion |-> None,
                          last_translation_vector |-> None,
                          log |-> <<>>],
                         tracks, arm, BuildBoneIndexToPoseBoneMap(arm),
                         header.time_count, Len(tracks))
    IN  [pose           |-> done.pose,
         animation_data |-> Some(name),
         actions        |-> [cleared EXCEPT ![name] = done.fcurves],
         scene_frames   |-> FrameRange(frames, header.time_count)]

\* ------------------------------------------------------------ batch import
\* An action name is <<stem, tail, n>>: stem and tail as written by the
\* importer or a loader, n > 0 the numeric suffix the host appends to keep
\* the names of bpy.data.actions unique.
SkaActionName(stem) == <<stem, "_from_ska", 0>>

UniqueName(stem, tail, acts) ==
    <<stem, tail,
      CHOOSE n \in 0..Cardinality(DOMAIN acts) :
          /\ <<stem, tail, n>> \notin DOMAIN acts
          /\ \A m \in 0..(n - 1) : <<stem, tail, m>> \in DOMAIN acts>>

\* current_action.name.lower().startswith(stem.lower()); the stems of the
\* model are lower case and none is a prefix of another name
NameStartsWith(name, stem) == name[1] = stem

\* renaming an action keeps its points; the host makes the new name unique
RenameAction(acts, old, stem, tail) ==
    LET others == [n \in (DOMAIN acts) \ {old} |-> acts[n]]
        new == UniqueName(stem, tail, others)
    IN  [renamed |-> Put(others, new, acts[old]), name |-> new]

\* the files a selection is made of
GridA == << <<0, NoKey>>, <<NoKey, 1>> >>

GridB == << <<0>> >>

ContentA ==
    [readable |-> TRUE,
     header |-> [bone_count |-> 2, time_count |-> 3, keyframe_count |-> 2],
     size |-> ExactSize([bone_count |-> 2, time_count |-> 3, keyframe_count |-> 2]),
     times |-> <<0, 1, 2>>, raw_time_index |-> <<1, 0>>, grid |-> GridA]

ContentB ==
    [readable |-> TRUE,
     header |-> [bone_count |-> 1, time_count |-> 2, keyframe_count |-> 1],
     size |-> ExactSize([bone_count |-> 1, time_count |-> 2, keyframe_count |-> 1]),
     times |-> <<0, 1>>, raw_time_index |-> <<1>>, grid |-> GridB]

Truncated(content) == [content EXCEPT !.size = content.size - 1]

Unreadable(content) == [content EXCEPT !.readable = FALSE]

NoContent == Unreadable(ContentB)

BatchFiles ==
    { [name |-> "walk.ska",  stem |-> "walk", suffix |-> ".ska", content |-> ContentA],
      [name |-> "walk.SKA",  stem |-> "walk", suffix |-> ".ska", content |-> ContentB],
      [name |-> "walk.Ska",  stem |-> "walk", suffix |-> ".ska", content |-> Truncated(ContentA)],
      [name |-> "run.ska",   stem |-> "run",  suffix |-> ".ska", content |-> Unreadable(ContentA)],
      [name |-> "idle.anm",  stem |-> "idle", suffix |-> ".anm", content |-> NoContent],
      [name |-> "notes.txt", stem |-> "notes", suffix |-> ".txt", content |-> NoContent] }

Selections == UNION { [1..n -> BatchFiles] : n \in 1..MaxFiles }

\* a keyframe point of an action made by the ANM loader
AnmPoint == [bone |-> 1, data_path |-> "location", frame |-> 1, value |-> "anm"]

ErrorMessage(file, kind) == [file |-> file.name, kind |-> kind]

InitBatch ==
    /\ animation_paths \in Selections
    /\ HAS_BFBB_ANM \in BOOLEAN
    /\ active_object \in {"ARMATURE", "MESH", "none"}
    /\ dff_generate_bone_props \in {"absent", "generates", "raises"}
    /\ armature \in { [bone_ids |-> <<None, None>>, missing |-> 0],
                      [bone_ids |-> <<Some(1), None>>, missing |-> 0] }
    /\ pose = InitialPose(PoseBoneCount(armature))
    /\ animation_data = None
    /\ actions = EmptyMap
    /\ scene_frames = <<1, 250>>
    /\ bpc = "start"
    /\ path_index = 0
    /\ errors = <<>>
    /\ imported_ska_actions = <<>>
    /\ imported_anm_count = 0
    /\ reports = <<>>
    /\ file_outcomes = <<>>
    /\ file_size = 0
    /\ file_header = <<>>
    /\ pc = "idle"
    /\ header_information = <<>>
    /\ time_values = <<>>
    /\ keyframes = <<>>
    /\ key_offset_grid = <<>>
    /\ bone_animation_tracks = <<>>
    /\ parse_error = "none"
    /\ ApplyIdle

CurrentFile == animation_paths[path_index + 1]

InLoop == bpc = "loop" /\ path_index < Len(animation_paths)

batchInputs == <<animation_paths, HAS_BFBB_ANM, active_object,
                 dff_generate_bone_props>>

\* lines 419-468: the paths, the armature, the DFF bone properties
BeginExecute ==
    /\ bpc = "start"
    /\ IF active_object # "ARMATURE"
       THEN /\ reports' = Append(reports, [level |-> "ERROR", text |-> "no armature"])
            /\ bpc' = "cancelled"
            /\ UNCHANGED armature
       ELSE /\ bpc' = "loop"
            /\ CASE dff_generate_bone_props = "generates" ->
                      /\ armature' = [armature EXCEPT !.bone_ids =
                                         [p \in 1..PoseBoneCount(armature) |-> Some(p - 1)]]
                      /\ UNCHANGED reports
                 [] dff_generate_bone_props = "raises" ->
                      /\ reports' = Append(reports,
                             [level |-> "WARNING",
                              text |-> [file |-> "", kind |-> "bone properties"]])
                      /\ UNCHANGED armature
                 [] OTHER ->
                      /\ reports' = Append(reports,
                             [level |-> "INFO", text |-> "operator not found"])
                      /\ UNCHANGED armature
    /\ UNCHANGED <<decodeVars, applyVars, batchInputs, pose, animation_data,
                   actions, scene_frames, path_index, errors,
                   imported_ska_actions, imported_anm_count, file_outcomes>>

\* (mutation of NextPath: an error leaves the loop)
NextPathBreaks(outcome) ==
    IF outcome = "error" THEN Len(animation_paths) ELSE path_index + 1

\* the for statement moves on to the next path, also on continue
NextPath(outcome) == path_index + 1

FileDone(outcome) ==
    /\ path_index' = NextPath(outcome)
    /\ file_outcomes' = Append(file_outcomes, outcome)

\* neither branch of lines 481-532 is taken
SkipOtherSuffix ==
    /\ InLoop
    /\ CurrentFile.suffix \notin {".ska", ".anm"}
    /\ FileDone("ignored")
    /\ UNCHANGED <<decodeVars, applyVars, hostVars, batchInputs, bpc, errors,
                   imported_ska_actions, imported_anm_count, reports>>

\* (mutation of ParseSkaFails: the action is created before the file is parsed)
ParseSkaFailsAfterAction ==
    /\ InLoop
    /\ CurrentFile.suffix = ".ska"
    /\ ParseSkaFile(CurrentFile.content).error # "none"
    /\ errors' = Append(errors, ErrorMessage(CurrentFile, "SKA parse error"))
    /\ actions' = CreateOrClearAction(actions, SkaActionName(CurrentFile.stem))
    /\ animation_data' = Some(SkaActionName(CurrentFile.stem))
    /\ FileDone("error")
    /\ UNCHANGED <<decodeVars, applyVars, armature, pose, scene_frames,
                   batchInputs, bpc, imported_ska_actions, imported_anm_count,
                   reports>>

\* lines 482-486
ParseSkaFails ==
    /\ InLoop
    /\ CurrentFile.suffix = ".ska"
    /\ ParseSkaFile(CurrentFile.content).error # "none"
    /\ errors' = Append(errors, ErrorMessage(CurrentFile, "SKA parse error"))
    /\ FileDone("error")
    /\ UNCHANGED <<decodeVars, applyVars, hostVars, batchInputs, bpc,
                   imported_ska_actions, imported_anm_count, reports>>

\* lines 482-489: parsed_ska and action_name are set
ParseSkaSucceeds ==
    /\ InLoop
    /\ CurrentFile.suffix = ".ska"
    /\ LET parsed == ParseSkaFile(CurrentFile.content)
       IN  /\ parsed.error = "none"
           /\ header_information' = parsed.header
           /\ time_values' = parsed.time_values
           /\ keyframes' = parsed.pool
           /\ key_offset_grid' = CurrentFile.content.grid
           /\ bone_animation_tracks' = parsed.bone_animation_tracks
    /\ file_size' = CurrentFile.content.size
    /\ file_header' = CurrentFile.content.header
    /\ action_name' = SkaActionName(CurrentFile.stem)
    /\ bpc' = "apply"
    /\ UNCHANGED <<pc, parse_error, hostVars, batchInputs, apc,
                   bone_index_to_pose_bone, bone_index, time_slot_index,
                   entries_by_time_slot_index, last_rotation_quaternion,
                   last_translation_vector, local_time_count, insert_log,
                   path_index, errors, imported_ska_actions, imported_anm_count,
                   reports, file_outcomes>>

\* lines 491-493
ApplySka ==
    /\ bpc = "apply"
    /\ LET after == ApplySkaToArmature(header_information, bone_animation_tracks,
                                       armature, actions, scene_frames, action_name)
       IN  /\ pose' = after.pose
           /\ animation_data' = after.animation_data
           /\ actions' = after.actions
           /\ scene_frames' = after.scene_frames
    /\ imported_ska_actions' = Append(imported_ska_actions, action_name)
    /\ FileDone("imported")
    /\ bpc' = "loop"
    /\ UNCHANGED <<decodeVars, applyVars, armature, batchInputs, errors,
                   imported_anm_count, reports>>

\* lines 491-496: a host call inside apply_ska_to_armature raises; here
\* bpy.context.view_layer.update() (line 290), after the action was made
ApplySkaRaises ==
    /\ bpc = "apply"
    /\ actions' = CreateOrClearAction(actions, action_name)
    /\ animation_data' = Some(action_name)
    /\ errors' = Append(errors, ErrorMessage(CurrentFile, "SKA apply error"))
    /\ FileDone("error")
    /\ bpc' = "loop"
    /\ UNCHANGED <<decodeVars, applyVars, armature, pose, scene_frames,
                   batchInputs, imported_ska_actions, imported_anm_count, reports>>

\* lines 499-506
AnmLoaderMissing ==
    /\ InLoop
    /\ CurrentFile.suffix = ".anm"
    /\ ~HAS_BFBB_ANM
    /\ errors' = Append(errors, ErrorMessage(CurrentFile, "loader not available"))
    /\ FileDone("error")
    /\ UNCHANGED <<decodeVars, applyVars, hostVars, batchInputs, bpc,
                   imported_ska_actions, imported_anm_count, reports>>

\* lines 508-528: import_bfbb_anm.load returns, having made new_count new
\* actions (the last one assigned to the armature), then the rename
AnmImport ==
    /\ InLoop
    /\ CurrentFile.suffix = ".anm"
    /\ HAS_BFBB_ANM
    /\ \E new_count \in {0, 1} :
         LET made == UniqueName(CurrentFile.stem, "", actions)
             loaded == IF new_count = 1 THEN Put(actions, made, {AnmPoint}) ELSE actions
             assigned == IF new_count = 1 THEN Some(made) ELSE animation_data
             rename == /\ ~IsNone(assigned)
                       /\ ~NameStartsWith(Val(assigned), CurrentFile.stem)
             result == RenameAction(loaded, Val(assigned), CurrentFile.stem, "_anm")
         IN  /\ imported_anm_count' = imported_anm_count + (IF new_count # 0 THEN new_count ELSE 1)
             /\ actions' = IF rename THEN result.renamed ELSE loaded
             /\ animation_data' = IF rename THEN Some(result.name) ELSE assigned
    /\ FileDone("imported")
    /\ UNCHANGED <<decodeVars, applyVars, armature, pose, scene_frames,
                   batchInputs, bpc, errors, imported_ska_actions, reports>>

\* lines 508-532: import_bfbb_anm.load raises
AnmImportRaises ==
    /\ InLoop
    /\ CurrentFile.suffix = ".anm"
    /\ HAS_BFBB_ANM
    /\ errors' = Append(errors, ErrorMessage(CurrentFile, "ANM import error"))
    /\ FileDone("error")
    /\ UNCHANGED <<decodeVars, applyVars, hostVars, batchInputs, bpc,
                   imported_ska_actions, imported_anm_count, reports>>

\* lines 533-541
ReportAndFinish ==
    /\ bpc = "loop"
    /\ path_index >= Len(animation_paths)
    /\ reports' =
         reports
           \o (IF imported_ska_actions # <<>>
               THEN <<[level |-> "INFO",
                       text |-> <<"SKA actions", Len(imported_ska_actions)>>]>>
               ELSE <<>>)
           \o (IF imported_anm_count # 0
               THEN <<[level |-> "INFO",
                       text |-> <<"ANM animations", imported_anm_count>>]>>
               ELSE <<>>)
           \o [i \in 1..Len(errors) |-> [level |-> "WARNING", text |-> errors[i]]]
    /\ bpc' = "finished"
    /\ UNCHANGED <<decodeVars, applyVars, hostVars, batchInputs, path_index,
                   errors, imported_ska_actions, imported_anm_count, file_outcomes>>

NextBatch ==
    \/ BeginExecute
    \/ SkipOtherSuffix
    \/ ParseSkaFails
    \/ ParseSkaSucceeds
    \/ ApplySka
    \/ ApplySkaRaises
    \/ AnmLoaderMissing
    \/ AnmImport
    \/ AnmImportRaises
    \/ ReportAndFinish

SpecBatch == InitBatch /\ [][NextBatch]_vars

\* ------------------------------------------------------------------ claims
DecodeReadNothing ==
    /\ time_values = <<>>
    /\ keyframes = <<>>
    /\ key_offset_grid = <<>>
    /\ bone_animation_tracks = <<>>

\* C1: a buffer of exactly 28 + 16K + 4T + 2*max(T-1,0)*B bytes goes through
\* every section of the decoder without any error, to a result with one track
\* per bone; a buffer one byte shorter never enters a reading section, the
\* only error it ends in being the size error;
\* whenever the size error is raised, no time value, keyframe, grid cell or
\* track has been read or built.
C1_SizeCheck ==
    /\ file_size = ExactSize(file_header) =>
          /\ parse_error = "none"
          /\ pc \in {"header", "layout", "times", "keyframes", "grid", "tracks", "done"}
          /\ pc = "done" => Len(bone_animation_tracks) = file_header.bone_count
    /\ file_size = ExactSize(file_header) - 1 =>
          /\ pc \in {"header", "layout", "error"}
          /\ pc = "error" => parse_error = "size"
    /\ parse_error = "size" => DecodeReadNothing

\* C1 witness: a file holding at least one bone, two times and a keyframe, one
\* byte short of its layout, has been refused by the layout check.
C1_Witness ==
    /\ pc = "error"
    /\ parse_error = "size"
    /\ header_information # <<>>
    /\ file_header.bone_count >= 1
    /\ file_header.time_count >= 2
    /\ file_header.keyframe_count >= 1
    /\ file_size = ExactSize(file_header) - 1

EntriesAtSlot(track, s) ==
    { i \in 1..Len(track) : track[i].frame_time_slot_index = s }

\* C2: in the decoded result there is one track per bone; a grid cell (s,b)
\* holding 0xFFFF or a value >= keyframe_count yields no entry in bone b's
\* track, any other cell yields exactly one entry, carrying slot s and the
\* time, quaternion and translation of the pooled keyframe the cell names; and
\* every entry of a track sits at a slot of the grid.
C2_GridCellsToEntries ==
    pc = "done" =>
        LET B == header_information.bone_count
            K == header_information.keyframe_count
            S == IF header_information.time_count >= 1
                 THEN header_information.time_count - 1 ELSE 0
        IN  /\ Len(bone_animation_tracks) = B
            /\ \A b \in 1..B :
                 LET track == bone_animation_tracks[b]
                 IN  /\ \A i \in 1..Len(track) :
                            track[i].frame_time_slot_index \in 0..(S - 1)
                     /\ \A s \in 0..(S - 1) :
                          LET cell == key_offset_grid[s + 1][b]
                              at == EntriesAtSlot(track, s)
                          IN  IF cell = 65535 \/ cell >= K
                              THEN at = {}
                              ELSE /\ Cardinality(at) = 1
                                   /\ \A i \in at :
                                        /\ track[i].absolute_time_value = keyframes[cell + 1].time
                                        /\ track[i].quaternion = keyframes[cell + 1].quaternion
                                        /\ track[i].translation = keyframes[cell + 1].translation

\* C2 witness: a decoded two-bone file in which one bone has a sentinel cell,
\* an out-of-range cell and the other bone an entry from pool keyframe 1.
C2_Witness ==
    /\ pc = "done"
    /\ header_information.bone_count = 2
    /\ header_information.time_count = 3
    /\ header_information.keyframe_count = 1
    /\ key_offset_grid[1][1] = 65535
    /\ key_offset_grid[2][1] = 1
    /\ key_offset_grid[1][2] = 0
    /\ Len(bone_animation_tracks[1]) = 0
    /\ Len(bone_animation_tracks[2]) >= 1

\* C3 (as claimed): every decoded track is ordered by resolved time ascending,
\* entries without a resolved time after every entry with one, ties broken by
\* slot index ascending; and an out-of-range time_index never fails the decode.
C3_TrackOrderAsClaimed ==
    /\ pc = "error" => parse_error = "size"
    /\ pc = "done" =>
        \A b \in 1..Len(bone_animation_tracks) :
            LET track == bone_animation_tracks[b]
            IN  \A i, j \in 1..Len(track) :
                    i < j =>
                        LET ti == track[i].absolute_time_value
                            tj == track[j].absolute_time_value
                            si == track[i].frame_time_slot_index
                            sj == track[j].frame_time_slot_index
                        IN  /\ ~(IsNone(ti) /\ ~IsNone(tj))
                            /\ (IsNone(ti) /\ IsNone(tj)) => si < sj
                            /\ (~IsNone(ti) /\ ~IsNone(tj)) =>
                                   \/ Val(ti) < Val(tj)
                                   \/ Val(ti) = Val(tj) /\ si < sj

\* ---------------------------------------------------- claims on the retarget
\* the pose bone a decoded bone index is retargeted onto, when there is one
IndexMapped(b) ==
    IF b \in DOMAIN bone_index_to_pose_bone
    THEN armature.missing # bone_index_to_pose_bone[b]
    ELSE FALSE

\* the time slots at which the decoded track of index b has an entry
PopulatedSlots(b) ==
    { bone_animation_tracks[b + 1][i].frame_time_slot_index :
        i \in 1..Len(bone_animation_tracks[b + 1]) }

\* how many slots of index b the slot loop has already been through
SlotsVisited(b) ==
    IF apc = "done" \/ b < bone_index THEN header_information.time_count
    ELSE IF b = bone_index /\ apc = "slot" THEN time_slot_index
    ELSE 0

WrittenPoints == actions[action_name]

ValuesAt(p, path, frame) ==
    { k.value : k \in { x \in WrittenPoints :
                          x.bone = p /\ x.data_path = path /\ x.frame = frame } }

FramesOf(p, path) ==
    { k.frame : k \in { x \in WrittenPoints : x.bone = p /\ x.data_path = path } }

Channels == {"rotation_quaternion", "location"}

\* C4: for one mapped bone the slots are gone through in increasing order;
\* at a visited slot without a track entry each channel holds exactly the value
\* emitted at the most recent earlier slot with an entry, and a slot before
\* the first populated one has no sample at all.
C4_HoldLastValue ==
    apc \in {"bone", "slot", "done"} =>
        /\ \A i, j \in 1..Len(insert_log) :
               (i < j /\ insert_log[i].bone_index = insert_log[j].bone_index)
                   => insert_log[i].slot <= insert_log[j].slot
        /\ \A b \in 0..(Len(bone_animation_tracks) - 1) :
             IndexMapped(b) =>
               LET p == bone_index_to_pose_bone[b]
               IN  \A s \in 0..(SlotsVisited(b) - 1) :
                     s \notin PopulatedSlots(b) =>
                       LET earlier == { e \in PopulatedSlots(b) : e < s }
                       IN  IF earlier = {}
                           THEN \A path \in Channels : ValuesAt(p, path, s + 1) = {}
                           ELSE \A path \in Channels :
                                  /\ Cardinality(ValuesAt(p, path, s + 1)) = 1
                                  /\ ValuesAt(p, path, s + 1) =
                                         ValuesAt(p, path, MaxOf(earlier) + 1)

\* C4 witness: a mapped bone whose only entry is at slot 1 of three slots has
\* been retargeted: nothing at frame 1, the held value at frame 3.
C4_Witness ==
    /\ apc = "done"
    /\ header_information.time_count = 3
    /\ \E b \in 0..(Len(bone_animation_tracks) - 1) :
          /\ IndexMapped(b)
          /\ PopulatedSlots(b) = {1}
          /\ ValuesAt(bone_index_to_pose_bone[b], "location", 1) = {}
          /\ ValuesAt(bone_index_to_pose_bone[b], "location", 3) # {}

ExplicitlyIndexed(p) ==
    armature.missing # p /\ armature.bone_ids[p] # <<>>

\* C5: once built, the bone-index map is all-or-nothing: with no explicit
\* bone_id on any bone, index i maps to the i-th pose bone (0-based) for every
\* i; with at least one explicit bone_id its keys are exactly the explicit
\* ids and every key maps to a bone carrying that id, never to a bone by its
\* list position.
C5_BoneMapAllOrNothing ==
    apc \in {"action", "prepare", "bone", "slot", "done"} =>
        LET n == Len(armature.bone_ids)
            m == bone_index_to_pose_bone
        IN  IF \A p \in 1..n : ~ExplicitlyIndexed(p)
            THEN /\ DOMAIN m = 0..(n - 1)
                 /\ \A i \in 0..(n - 1) : m[i] = i + 1
            ELSE /\ DOMAIN m = { armature.bone_ids[p][1] :
                                   p \in { q \in 1..n : ExplicitlyIndexed(q) } }
                 /\ \A i \in DOMAIN m :
                        /\ ExplicitlyIndexed(m[i])
                        /\ armature.bone_ids[m[i]][1] = i

\* C5 witness: of two pose bones only the first carries a bone_id, 1; the map
\* built holds that single key and the second bone is not mapped.
C5_Witness ==
    /\ apc = "done"
    /\ armature.bone_ids = <<Some(1), None>>
    /\ armature.missing = 0
    /\ DOMAIN bone_index_to_pose_bone = {1}
    /\ bone_index_to_pose_bone[1] = 1

\* the end-to-end scenario: one bone, two times, one keyframe, grid [[0]],
\* a single root bone mapped to index 0, retargeting finished
EndToEndScenario ==
    /\ apc = "done"
    /\ header_information = [bone_count |-> 1, time_count |-> 2, keyframe_count |-> 1]
    /\ key_offset_grid = << <<0>> >>
    /\ Len(armature.bone_ids) = 1
    /\ armature.missing = 0
    /\ 0 \in DOMAIN bone_index_to_pose_bone

\* C6 (as claimed): in the end-to-end scenario retargeting leaves exactly one
\* rotation sample and one translation sample, both at frame 1.
C6_EndToEndAsClaimed ==
    EndToEndScenario =>
        /\ FramesOf(1, "rotation_quaternion") = {1}
        /\ FramesOf(1, "location") = {1}
        /\ Cardinality(WrittenPoints) = 2

\* C6 (amended): in the end-to-end scenario retargeting leaves exactly two
\* rotation samples and two translation samples, at frames 1 and 2: frame 1
\* computed from the keyframe, frame 2 holding the same values, the sample
\* domain being slots [0, time_count) = [0, 2); the frame range set is [1, 2].
C6_EndToEndAmended ==
    EndToEndScenario =>
        /\ FramesOf(1, "rotation_quaternion") = {1, 2}
        /\ FramesOf(1, "location") = {1, 2}
        /\ Cardinality(WrittenPoints) = 4
        /\ \A path \in Channels :
             /\ Cardinality(ValuesAt(1, path, 1)) = 1
             /\ ValuesAt(1, path, 2) = ValuesAt(1, path, 1)
        /\ \A v \in ValuesAt(1, "rotation_quaternion", 1) : v.game = <<1, 0, 0, 0>>
        /\ \A v \in ValuesAt(1, "location", 1) : v.game = <<10, 0, 0>>
        /\ scene_frames = <<1, 2>>

\* C6 witness: the end-to-end scenario has run to its end and a sample sits
\* at frame 2.
C6_Witness ==
    /\ EndToEndScenario
    /\ ValuesAt(1, "rotation_quaternion", 2) # {}

\* C8: the keyframe_insert calls of one bone and channel come at strictly
\* increasing frames; every call's frame is its slot index + 1 and belongs to
\* a mapped bone; the action holds exactly the points written; and with
\* time_count > 0 the frame range set by the call is [1, time_count] and
\* every frame written lies in it.
C8_FramesIncreasing ==
    apc \in {"bone", "slot", "done"} =>
        /\ \A i \in 1..Len(insert_log) :
             /\ insert_log[i].frame = insert_log[i].slot + 1
             /\ IndexMapped(insert_log[i].bone_index)
             /\ insert_log[i].bone = bone_index_to_pose_bone[insert_log[i].bone_index]
        /\ \A i, j \in 1..Len(insert_log) :
             (/\ i < j
              /\ insert_log[i].bone = insert_log[j].bone
              /\ insert_log[i].data_path = insert_log[j].data_path)
                 => insert_log[i].frame < insert_log[j].frame
        /\ WrittenPoints =
             { [bone |-> insert_log[i].bone, data_path |-> insert_log[i].data_path,
                frame |-> insert_log[i].frame, value |-> insert_log[i].value] :
                 i \in 1..Len(insert_log) }
        /\ header_information.time_count > 0 =>
             /\ scene_frames = <<1, header_information.time_count>>
             /\ \A i \in 1..Len(insert_log) :
                    /\ scene_frames[1] <= insert_log[i].frame
                    /\ insert_log[i].frame <= scene_frames[2]

\* C8 witness: two bones have been written, one of them at three frames.
C8_Witness ==
    /\ apc = "done"
    /\ header_information.time_count = 3
    /\ FramesOf(1, "rotation_quaternion") = {1, 2, 3}
    /\ FramesOf(2, "location") = {2, 3}

\* the entry of index b's decoded track at slot s
EntryAtSlot(b, s) ==
    LET track == bone_animation_tracks[b + 1]
    IN  track[CHOOSE i \in 1..Len(track) : track[i].frame_time_slot_index = s]

\* what index b, retargeted alone onto pose bone p, is to receive: at every
\* slot from its first populated one on, the values of the latest entry
ExpectedPoints(b, p) ==
    UNION { LET covering == { e \in PopulatedSlots(b) : e <= s }
            IN  IF covering = {} THEN {}
                ELSE LET entry == EntryAtSlot(b, MaxOf(covering))
                     IN  { [bone |-> p, data_path |-> "rotation_quaternion",
                            frame |-> s + 1,
                            value |-> [op |-> "rotation_difference",
                                       rest |-> <<"local_rest_rotation", p>>,
                                       game |-> <<entry.quaternion[4], entry.quaternion[1],
                                                  entry.quaternion[2], entry.quaternion[3]>>]],
                           [bone |-> p, data_path |-> "location",
                            frame |-> s + 1,
                            value |-> [op |-> "basis_translation", bone |-> p,
                                       game |-> entry.translation]] } :
            s \in 0..(header_information.time_count - 1) }

\* C9: apply_ska_to_armature never stops before its end; when it has ended,
\* an index without an entry in the bone-index map has had no keyframe
\* written, and every mapped index holds exactly the points it receives when
\* retargeted alone, wherever the unmapped indices sit in the track list.
C9_UnmappedIndexSkipped ==
    /\ (apc \notin {"idle", "done"}) => ENABLED NextApply
    /\ apc = "done" =>
        \A b \in 0..(Len(bone_animation_tracks) - 1) :
            IF b \notin DOMAIN bone_index_to_pose_bone
            THEN \A i \in 1..Len(insert_log) : insert_log[i].bone_index # b
            ELSE IndexMapped(b) =>
                   { k \in WrittenPoints : k.bone = bone_index_to_pose_bone[b] }
                       = ExpectedPoints(b, bone_index_to_pose_bone[b])

\* C9 witness: index 0 has a track but no map entry, index 1 after it is
\* mapped and has received its points.
C9_Witness ==
    /\ apc = "done"
    /\ Len(bone_animation_tracks) = 2
    /\ 0 \notin DOMAIN bone_index_to_pose_bone
    /\ bone_animation_tracks[1] # <<>>
    /\ IndexMapped(1)
    /\ bone_animation_tracks[2] # <<>>
    /\ { k \in WrittenPoints : k.bone = bone_index_to_pose_bone[1] } # {}

\* the lowest time slot at which the decoded track of index b has an entry
LowestPopulatedSlot(b) ==
    CHOOSE m \in PopulatedSlots(b) : \A x \in PopulatedSlots(b) : m <= x

\* C11: a decoded track has no entry at slot time_count - 1 or later, the
\* grid having time_count - 1 rows; once retargeting has ended, every mapped
\* bone with a non-empty track and time_count > 0 holds, on each channel,
\* samples at exactly the frames from its lowest populated slot + 1 to
\* time_count, none missing; the sample at frame time_count is one value per
\* channel, the value written at the last populated slot, an earlier frame.
C11_ContiguousFramesHeldEnd ==
    LET time_count == header_information.time_count
    IN  /\ apc # "idle" =>
              \A b \in 0..(Len(bone_animation_tracks) - 1) :
                  \A s \in PopulatedSlots(b) : 0 <= s /\ s < time_count - 1
        /\ apc = "done" =>
              \A b \in 0..(Len(bone_animation_tracks) - 1) :
                  (/\ IndexMapped(b)
                   /\ bone_animation_tracks[b + 1] # <<>>
                   /\ time_count > 0)
                      => LET p == bone_index_to_pose_bone[b]
                             last == MaxOf(PopulatedSlots(b))
                         IN  /\ last + 1 < time_count
                             /\ \A path \in Channels :
                                   /\ FramesOf(p, path) =
                                          (LowestPopulatedSlot(b) + 1)..time_count
                                   /\ Cardinality(ValuesAt(p, path, time_count)) = 1
                                   /\ ValuesAt(p, path, time_count) =
                                          ValuesAt(p, path, last + 1)

\* C11 witness: with three times a mapped bone whose only entry sits at
\* slot 1 has been retargeted: its frames are 2 and 3, frame 3 held.
C11_Witness ==
    /\ apc = "done"
    /\ header_information.time_count = 3
    /\ \E b \in 0..(Len(bone_animation_tracks) - 1) :
          /\ IndexMapped(b)
          /\ PopulatedSlots(b) = {1}
          /\ FramesOf(bone_index_to_pose_bone[b], "rotation_quaternion") = {2, 3}
          /\ FramesOf(bone_index_to_pose_bone[b], "location") = {2, 3}

\* ------------------------------------------------- claims on the batch loop
\* the paths gone through so far that ended in a fatal error
FailedPaths == { i \in 1..Len(file_outcomes) : file_outcomes[i] = "error" }

\* a .ska file parse_ska_file cannot decode: unreadable, or shorter than its layout
ParseFailingFile(f) ==
    /\ f.suffix = ".ska"
    /\ \/ ~f.content.readable
       \/ f.content.size < ExactSize(f.content.header)

\* a file bound to fail whatever the host does
BoundToFail(f) ==
    \/ ParseFailingFile(f)
    \/ f.suffix = ".anm" /\ ~HAS_BFBB_ANM

ErrorReports ==
    SelectSeq(reports, LAMBDA r : r.level = "WARNING" /\ r.text.kind # "bone properties")

\* C7: inside the batch loop every path is gone through, in order, whatever
\* happened to the paths before it; each path that failed (parse error, apply
\* error, loader missing or failing) has added exactly one message, in order,
\* naming it; no message is reported before the loop has ended, and the loop
\* ends only past the last path, all the messages being reported then.
C7_BatchContinues ==
    bpc \in {"loop", "apply", "finished"} =>
        /\ Len(file_outcomes) = path_index
        /\ path_index <= Len(animation_paths)
        /\ \A i \in 1..Len(file_outcomes) :
               BoundToFail(animation_paths[i]) => file_outcomes[i] = "error"
        /\ Len(errors) = Cardinality(FailedPaths)
        /\ \A i \in FailedPaths :
               errors[Cardinality({ j \in FailedPaths : j <= i })].file
                   = animation_paths[i].name
        /\ bpc # "finished" => ErrorReports = <<>>
        /\ bpc = "finished" =>
               /\ path_index = Len(animation_paths)
               /\ ErrorReports =
                      [i \in 1..Len(errors) |-> [level |-> "WARNING", text |-> errors[i]]]

\* C7 witness: the first of two files failed, the second was imported all the
\* same, and the one message was reported at the end.
C7_Witness ==
    /\ bpc = "finished"
    /\ file_outcomes = <<"error", "imported">>
    /\ Len(errors) = 1
    /\ Len(ErrorReports) = 1

\* C10: the step of the batch loop that goes past a .ska file parse_ska_file
\* cannot decode records the parse error and leaves the host as it was: the
\* armature, the pose bones, the assigned action, every action with its
\* keyframe points, and the scene frame range.
C10_ParseFailureLeavesHost ==
    [][ (/\ bpc = "loop"
         /\ path_index < Len(animation_paths)
         /\ ParseFailingFile(animation_paths[path_index + 1])
         /\ path_index' # path_index)
            => /\ UNCHANGED <<armature, pose, animation_data, actions, scene_frames>>
               /\ Len(errors') = Len(errors) + 1
               /\ errors'[Len(errors')] =
                      [file |-> animation_paths[path_index + 1].name,
                       kind |-> "SKA parse error"] ]_vars

\* C10 witness: a truncated file of the same stem as the file imported before
\* it has failed to parse, and the action of the earlier file holds its points.
C10_Witness ==
    /\ file_outcomes = <<"imported", "error">>
    /\ animation_paths[1].suffix = ".ska"
    /\ ParseFailingFile(animation_paths[2])
    /\ animation_paths[2].stem = animation_paths[1].stem
    /\ <<"walk", "_from_ska", 0>> \in DOMAIN actions
    /\ actions[<<"walk", "_from_ska", 0>>] # {}
    /\ animation_data = <<<<"walk", "_from_ska", 0>>>>

\* the path the loop has just been through is a .ska file that was imported
JustImportedSka ==
    /\ bpc = "loop"
    /\ path_index >= 1
    /\ file_outcomes[path_index] = "imported"
    /\ animation_paths[path_index].suffix = ".ska"

\* how many of the paths before the last one were imported under its name
EarlierImportsUnderName ==
    Cardinality({ i \in 1..(path_index - 1) :
                    /\ file_outcomes[i] = "imported"
                    /\ animation_paths[i].suffix = ".ska"
                    /\ animation_paths[i].stem = animation_paths[path_index].stem })

\* the samples one application of the decoded animation gives the armature
SingleApplicationPoints ==
    LET map == BuildBoneIndexToPoseBoneMap(armature)
        mapped == { b \in 0..(Len(bone_animation_tracks) - 1) :
                      IF b \in DOMAIN map THEN HasEditBone(armature, map[b]) ELSE FALSE }
    IN  UNION { ExpectedPoints(b, map[b]) : b \in mapped }

\* C12: right after a .ska file has been imported, the action of its name
\* is the armature's action and holds exactly the samples of one application
\* of that file's decoded animation, whatever was imported or left behind
\* under that name before, the same file included; no second action of that
\* name (a host-made numbered copy) ever exists.
C12_ImportIdempotent ==
    /\ \A name \in DOMAIN actions : name[2] = "_from_ska" => name[3] = 0
    /\ JustImportedSka =>
          LET name == SkaActionName(animation_paths[path_index].stem)
          IN  /\ name \in DOMAIN actions
              /\ animation_data = Some(name)
              /\ actions[name] = SingleApplicationPoints

\* C12 witness: the same file has been imported twice in a row and the
\* action holds samples.
C12_Witness ==
    /\ JustImportedSka
    /\ path_index = 2
    /\ animation_paths[1] = animation_paths[2]
    /\ EarlierImportsUnderName = 1
    /\ actions[SkaActionName(animation_paths[2].stem)] # {}

====
